---- MODULE Spec2Model ----
(***************************************************************************)
(* Policy cascade engine of the FX hedging backend                         *)
(* (routes/settings_routes.py, birk_api.py).                               *)
(*                                                                         *)
(* The stored state is three tables: exposures, hedging_policies and       *)
(* policy_audit_log.  Every handler works in its own SQLAlchemy session    *)
(* (SessionLocal, autocommit=False, autoflush=False): raw UPDATE           *)
(* statements are executed inside the session's transaction, attribute     *)
(* assignments on ORM objects stay in the session until db.commit()        *)
(* flushes them, and closing the session without commit rolls back.        *)
(*                                                                         *)
(* Hedge ratios are held in percent (0.85 is 85), current rates in tenths  *)
(* (1.0 is 10).                                                            *)
(*                                                                         *)
(* settings_routes.py imports PolicyAuditLog from models and uses the      *)
(* attribute Exposure.hedge_override; models.py declares neither.  The     *)
(* tables come from the startup migration of birk_api.py (exposures        *)
(* .hedge_override BOOLEAN DEFAULT FALSE, policy_audit_log); the mapping   *)
(* is taken as the handlers use it.                                        *)
(***************************************************************************)
EXTENDS Integers, Sequences, FiniteSets, TLC

VARIABLES
    exposures,   \* table exposures: id -> row
    policies,    \* table hedging_policies: id -> row
    audit,       \* table policy_audit_log, in insertion order
    sess,        \* per worker: the open session of the request it serves
    last,        \* the response of the request that completed last
    pinned       \* history: exposure -> ratio of the set_override in force

vars == <<exposures, policies, audit, sess, last, pinned>>

\* Cap on the audit log length: a cascade is only started below it.
MaxAudit == 1

\* Tier thresholds of cascade_policy.
Threshold5M == 5000000
Threshold1M == 1000000

Companies == {1, 2}
Workers == {1, 2}

ExposureIds == {1, 2}

\* The (company_id, amount, current_rate in tenths) of the first exposure is
\* drawn from these; they sit on, just below and above both thresholds.
ExposureKinds ==
    { [company_id |-> 1, amount |-> 6000000, current_rate |-> 10],
      [company_id |-> 1, amount |-> 5000000, current_rate |-> 10],
      [company_id |-> 1, amount |-> 2500000, current_rate |-> 20],
      [company_id |-> 1, amount |-> 4999999, current_rate |-> 10],
      [company_id |-> 1, amount |-> 1000000, current_rate |-> 10],
      [company_id |-> 1, amount |-> 999999,  current_rate |-> 10],
      [company_id |-> 2, amount |-> 6000000, current_rate |-> 10] }

\* The second exposure: 2M of company 1.
SecondKind == [company_id |-> 1, amount |-> 2000000, current_rate |-> 10]

\* A new Exposure row: hedge_ratio_policy defaults to 1.0, hedge_override to
\* FALSE.
NewExposure(k) ==
    [company_id |-> k.company_id, amount |-> k.amount,
     current_rate |-> k.current_rate,
     hedge_ratio_policy |-> 100, hedge_override |-> FALSE]

\* The three policy templates create_policies inserts for company 1.
PolicyTemplates ==
    <<[company_id |-> 1, policy_name |-> "Conservative",
       hedge_ratio_over_5m |-> 85, hedge_ratio_1m_to_5m |-> 70,
       hedge_ratio_under_1m |-> 50, is_active |-> TRUE],
      [company_id |-> 1, policy_name |-> "Balanced",
       hedge_ratio_over_5m |-> 65, hedge_ratio_1m_to_5m |-> 50,
       hedge_ratio_under_1m |-> 30, is_active |-> FALSE],
      [company_id |-> 1, policy_name |-> "Opportunistic",
       hedge_ratio_over_5m |-> 40, hedge_ratio_1m_to_5m |-> 25,
       hedge_ratio_under_1m |-> 10, is_active |-> FALSE]>>

\* Request inputs.
ReqPolicyIds == {1, 2, 3, 9}
ReqExposureIds == {1, 2, 9}
ReqRatios == {-1, 0, 101}

\* The committed store as one value.
Store == [exposures |-> exposures, policies |-> policies, audit |-> audit]

EmptyFn == [x \in {} |-> 0]

\* A session that serves no request.
NoSession ==
    [op |-> "none", pc |-> "idle", policy_id |-> 0, company_id |-> 0,
     exposure_id |-> 0, hedge_ratio |-> 0,
     dirty_ratio |-> EmptyFn, dirty_override |-> EmptyFn,
     policy_writes |-> EmptyFn, updated |-> 0, skipped |-> 0]

Response(op, status, updated, skipped) ==
    [op |-> op, status |-> status, updated |-> updated, skipped |-> skipped]

NoResponse == Response("none", 0, 0, 0)

(***************************************************************************)
(* Queries and session operations                                          *)
(***************************************************************************)

\* PolicyFound with the company filter left out of the lookup.
PolicyFoundAnyCompany(s, pid, cid) == pid \in DOMAIN s.policies

\* SELECT * FROM hedging_policies WHERE id = :id AND company_id = :cid
PolicyFound(s, pid, cid) ==
    pid \in DOMAIN s.policies /\ s.policies[pid].company_id = cid

\* db.query(Exposure).filter(Exposure.company_id == cid).all()
CompanyExposures(s, cid) ==
    {e \in DOMAIN s.exposures : s.exposures[e].company_id = cid}

\* hedging_policies rows WHERE company_id = :cid
CompanyPolicies(s, cid) ==
    {id \in DOMAIN s.policies : s.policies[id].company_id = cid}

\* The hedge_override attribute of a loaded Exposure: the column
\* exposures.hedge_override that the startup migration adds, mapped on the
\* Exposure class like hedge_ratio_policy (the override flag of the
\* specification; the class in models.py does not declare it).
OverrideColumn(exp) == exp.hedge_override

\* Skips with the override check left out of the loop: nothing is skipped.
SkipsNothing(exp) == FALSE

\* getattr(exp, 'hedge_override', False): the exposure is skipped.
Skips(exp) == OverrideColumn(exp)

\* amount_usd = exp.amount * (exp.current_rate or 1), in tenths.
AmountUsd(exp) ==
    exp.amount * (IF exp.current_rate = 0 THEN 10 ELSE exp.current_rate)

\* NewRatio with > for >= : an amount on a threshold falls in the lower tier.
NewRatioStrict(p, exp) ==
    IF exp.amount * exp.current_rate > Threshold5M * 10 THEN p.hedge_ratio_over_5m
    ELSE IF exp.amount * exp.current_rate > Threshold1M * 10
         THEN p.hedge_ratio_1m_to_5m
    ELSE p.hedge_ratio_under_1m

\* The tier ratio of policy row p for an exposure.
NewRatio(p, exp) ==
    IF AmountUsd(exp) >= Threshold5M * 10 THEN p.hedge_ratio_over_5m
    ELSE IF AmountUsd(exp) >= Threshold1M * 10 THEN p.hedge_ratio_1m_to_5m
    ELSE p.hedge_ratio_under_1m

\* CascadeLoad counting as updated only the exposures whose ratio changes.
CascadeLoadCountsChanged(s, pid, cid) ==
    LET p    == s.policies[pid]
        exps == CompanyExposures(s, cid)
        upd  == {e \in exps : ~Skips(s.exposures[e])}
        chg  == {e \in upd :
                   NewRatio(p, s.exposures[e]) # s.exposures[e].hedge_ratio_policy}
    IN  [NoSession EXCEPT
           !.op = "cascade", !.pc = "loaded",
           !.policy_id = pid, !.company_id = cid,
           !.dirty_ratio = [e \in chg |-> NewRatio(p, s.exposures[e])],
           !.updated = Cardinality(chg),
           !.skipped = Cardinality(exps \ upd)]

\* The session of cascade_policy after its policy lookup, its exposure query
\* and its loop.  The loop assigns hedge_ratio_policy on the loaded objects;
\* the unit of work later writes the column of the objects whose value
\* differs from the loaded one (an assignment of the loaded value is no
\* change).
CascadeLoad(s, pid, cid) ==
    LET p    == s.policies[pid]
        exps == CompanyExposures(s, cid)
        upd  == {e \in exps : ~Skips(s.exposures[e])}
        chg  == {e \in upd :
                   NewRatio(p, s.exposures[e]) # s.exposures[e].hedge_ratio_policy}
    IN  [NoSession EXCEPT
           !.op = "cascade", !.pc = "loaded",
           !.policy_id = pid, !.company_id = cid,
           !.dirty_ratio = [e \in chg |-> NewRatio(p, s.exposures[e])],
           !.updated = Cardinality(upd),
           !.skipped = Cardinality(exps \ upd)]

\* ExecPolicyUpdate in a session that commits each statement as it runs.
ExecPolicyUpdateAutocommit(s, t, rows, value) ==
    [store |-> [s EXCEPT !.policies =
                  [id \in DOMAIN s.policies |->
                      [s.policies[id] EXCEPT
                         !.is_active = IF id \in rows THEN value ELSE @]]],
     sess  |-> t]

\* db.execute(UPDATE hedging_policies SET is_active = value ...) on the given
\* rows, in a session made with autocommit=False: the write belongs to the
\* session's transaction and reaches the store at commit.
ExecPolicyUpdate(s, t, rows, value) ==
    [store |-> s,
     sess  |-> [t EXCEPT !.policy_writes =
                  [id \in (DOMAIN t.policy_writes) \cup rows |->
                      IF id \in rows THEN value ELSE t.policy_writes[id]]]]

\* db.commit(): flush the changed attributes of the loaded objects, insert
\* the added rows, make the transaction's writes the stored state.
Commit(s, t, entries) ==
    [exposures |->
        [e \in DOMAIN s.exposures |->
            [s.exposures[e] EXCEPT
               !.hedge_ratio_policy =
                    IF e \in DOMAIN t.dirty_ratio THEN t.dirty_ratio[e] ELSE @,
               !.hedge_override =
                    IF e \in DOMAIN t.dirty_override
                    THEN t.dirty_override[e] ELSE @]],
     policies |->
        [id \in DOMAIN s.policies |->
            [s.policies[id] EXCEPT
               !.is_active =
                    IF id \in DOMAIN t.policy_writes
                    THEN t.policy_writes[id] ELSE @]],
     audit |-> s.audit \o entries]

\* get_db's finally: db.close() without commit rolls the transaction back.
Rollback(s, t) == s

\* The PolicyAuditLog row cascade_policy adds.
AuditEntry(s, t) ==
    [company_id |-> t.company_id, policy_id |-> t.policy_id,
     policy_name |-> s.policies[t.policy_id].policy_name,
     exposures_updated |-> t.updated, exposures_skipped |-> t.skipped]

(***************************************************************************)
(* The handlers, each as the store and the response it produces            *)
(***************************************************************************)

Result(s, resp) == [store |-> s, response |-> resp]

\* The deactivating UPDATE without its WHERE clause: every company's policies.
DeactivateAll(s, t) == ExecPolicyUpdate(s, t, DOMAIN s.policies, FALSE)

\* UPDATE hedging_policies SET is_active = false WHERE company_id = :cid
Deactivate(s, t) ==
    ExecPolicyUpdate(s, t, CompanyPolicies(s, t.company_id), FALSE)

\* cascade_policy: UPDATE hedging_policies SET is_active = true WHERE id = :id
CascadeActivate(s, t) ==
    ExecPolicyUpdate(s, t, {id \in DOMAIN s.policies : id = t.policy_id}, TRUE)

\* activate_policy: UPDATE ... SET is_active = true
\*                  WHERE id = :id AND company_id = :cid
PolicyActivate(s, t) ==
    ExecPolicyUpdate(s, t,
        {id \in CompanyPolicies(s, t.company_id) : id = t.policy_id}, TRUE)

\* cascade_policy.  crash = 0: the handler runs to its return; crash = k > 0:
\* it fails after its k-th statement (1 the queries and the loop, 2 the
\* deactivating UPDATE, 3 the activating UPDATE) and get_db closes the
\* session.
cascade_policy(s, pid, cid, crash) ==
    IF ~PolicyFound(s, pid, cid)
    THEN Result(s, Response("cascade", 404, 0, 0))
    ELSE
      LET t0 == CascadeLoad(s, pid, cid)
          r1 == Deactivate(s, t0)
          r2 == CascadeActivate(r1.store, r1.sess)
          failed == Response("cascade", 500, 0, 0)
      IN  CASE crash = 1 -> Result(Rollback(s, t0), failed)
            [] crash = 2 -> Result(Rollback(r1.store, r1.sess), failed)
            [] crash = 3 -> Result(Rollback(r2.store, r2.sess), failed)
            [] OTHER ->
                 Result(Commit(r2.store, r2.sess, <<AuditEntry(s, r2.sess)>>),
                        Response("cascade", 200, t0.updated, t0.skipped))

\* preview_cascade that runs the cascade and reports it as the preview.
PreviewApplies(s, pid, cid) ==
    [store |-> cascade_policy(s, pid, cid, 0).store,
     response |-> [cascade_policy(s, pid, cid, 0).response EXCEPT !.op = "preview"]]

\* preview_cascade counting every exposure of the company as one to update.
PreviewIgnoresOverrides(s, pid, cid) ==
    IF ~PolicyFound(s, pid, cid)
    THEN Result(s, Response("preview", 404, 0, 0))
    ELSE Result(s, Response("preview", 200,
                            Cardinality(CompanyExposures(s, cid)), 0))

\* preview_cascade: the two queries and the two counts; no write, no commit.
preview_cascade(s, pid, cid) ==
    IF ~PolicyFound(s, pid, cid)
    THEN Result(s, Response("preview", 404, 0, 0))
    ELSE
      LET exps == CompanyExposures(s, cid)
          will_update == Cardinality({e \in exps : ~OverrideColumn(s.exposures[e])})
          will_skip   == Cardinality({e \in exps : OverrideColumn(s.exposures[e])})
      IN  Result(s, Response("preview", 200, will_update, will_skip))

\* ValidRatio with the range check left out.
AnyRatio(r) == TRUE

\* if not 0 <= request.hedge_ratio <= 1: 400
ValidRatio(r) == 0 <= r /\ r <= 100

\* The session of set_hedge_override after its query and its assignments.
SetOverrideLoad(s, eid, r) ==
    [NoSession EXCEPT
       !.op = "set_override", !.pc = "loaded",
       !.exposure_id = eid, !.hedge_ratio = r,
       !.dirty_ratio =
           [e \in {e \in {eid} : s.exposures[e].hedge_ratio_policy # r} |-> r],
       !.dirty_override =
           [e \in {e \in {eid} : s.exposures[e].hedge_override # TRUE} |-> TRUE]]

set_hedge_override(s, eid, r) ==
    IF ~ValidRatio(r) THEN Result(s, Response("set_override", 400, 0, 0))
    ELSE IF eid \notin DOMAIN s.exposures
    THEN Result(s, Response("set_override", 404, 0, 0))
    ELSE Result(Commit(s, SetOverrideLoad(s, eid, r), <<>>),
                Response("set_override", 200, 0, 0))

\* clear_hedge_override that also puts the exposure back on the tier ratio
\* of its company's active policy.
ClearOverrideLoadResets(s, eid) ==
    LET act == {id \in CompanyPolicies(s, s.exposures[eid].company_id) :
                   s.policies[id].is_active}
    IN  [NoSession EXCEPT
           !.op = "clear_override", !.pc = "loaded", !.exposure_id = eid,
           !.dirty_ratio =
               [e \in {e \in {eid} : act # {}} |->
                   NewRatio(s.policies[CHOOSE id \in act : TRUE], s.exposures[e])],
           !.dirty_override = [e \in {eid} |-> FALSE]]

\* The session of clear_hedge_override after its query and its assignment.
ClearOverrideLoad(s, eid) ==
    [NoSession EXCEPT
       !.op = "clear_override", !.pc = "loaded", !.exposure_id = eid,
       !.dirty_override =
           [e \in {e \in {eid} : s.exposures[e].hedge_override # FALSE} |-> FALSE]]

clear_hedge_override(s, eid) ==
    IF eid \notin DOMAIN s.exposures
    THEN Result(s, Response("clear_override", 404, 0, 0))
    ELSE Result(Commit(s, ClearOverrideLoad(s, eid), <<>>),
                Response("clear_override", 200, 0, 0))

\* The session activate_policy opens.
ActivateBegin(pid, cid) ==
    [NoSession EXCEPT !.op = "activate", !.pc = "begun",
                      !.policy_id = pid, !.company_id = cid]

\* activate_policy: the two UPDATEs and the commit; no lookup of the policy.
activate_policy(s, pid, cid) ==
    LET r1 == Deactivate(s, ActivateBegin(pid, cid))
        r2 == PolicyActivate(r1.store, r1.sess)
    IN  Result(Commit(r2.store, r2.sess, <<>>), Response("activate", 200, 0, 0))

Max(S) == CHOOSE x \in S : \A y \in S : y <= x

\* create_policies: with fewer than three policies of company 1, delete them
\* and insert the three templates under fresh ids; else change nothing.
create_policies(s) ==
    LET existing == Cardinality(CompanyPolicies(s, 1))
        kept     == DOMAIN s.policies \ CompanyPolicies(s, 1)
        base     == IF DOMAIN s.policies = {} THEN 0 ELSE Max(DOMAIN s.policies)
        fresh    == {base + i : i \in 1..Len(PolicyTemplates)}
    IN  IF existing >= 3
        THEN Result(s, Response("create_policies", 200, 0, 0))
        ELSE Result([s EXCEPT !.policies =
                        [id \in kept \cup fresh |->
                            IF id \in kept THEN s.policies[id]
                            ELSE PolicyTemplates[id - base]]],
                    Response("create_policies", 200, 0, 0))

(***************************************************************************)
(* Requests served one at a time                                           *)
(***************************************************************************)

Init ==
    /\ \E k \in ExposureKinds :
          exposures = [e \in ExposureIds |->
                          IF e = 1 THEN NewExposure(k) ELSE NewExposure(SecondKind)]
    /\ policies = EmptyFn
    /\ audit = <<>>
    /\ sess = [w \in Workers |-> NoSession]
    /\ last = NoResponse
    /\ pinned = EmptyFn

\* The store and the response of a handler become the state.
Apply(r) ==
    /\ exposures' = r.store.exposures
    /\ policies' = r.store.policies
    /\ audit' = r.store.audit
    /\ last' = r.response

Pin(eid, r) == [e \in DOMAIN pinned \cup {eid} |-> IF e = eid THEN r ELSE pinned[e]]

Unpin(eid) == [e \in DOMAIN pinned \ {eid} |-> pinned[e]]

CreatePolicies ==
    /\ Apply(create_policies(Store))
    /\ UNCHANGED <<sess, pinned>>

Cascade ==
    \E pid \in ReqPolicyIds, cid \in Companies, crash \in 0..3 :
        /\ Len(audit) < MaxAudit
        /\ Apply(cascade_policy(Store, pid, cid, crash))
        /\ UNCHANGED <<sess, pinned>>

Preview ==
    \E pid \in ReqPolicyIds, cid \in Companies :
        /\ Apply(preview_cascade(Store, pid, cid))
        /\ UNCHANGED <<sess, pinned>>

SetOverride ==
    \E eid \in ReqExposureIds, r \in ReqRatios :
        /\ Apply(set_hedge_override(Store, eid, r))
        /\ pinned' = IF set_hedge_override(Store, eid, r).response.status = 200
                     THEN Pin(eid, r) ELSE pinned
        /\ UNCHANGED sess

ClearOverride ==
    \E eid \in ReqExposureIds :
        /\ Apply(clear_hedge_override(Store, eid))
        /\ pinned' = IF clear_hedge_override(Store, eid).response.status = 200
                     THEN Unpin(eid) ELSE pinned
        /\ UNCHANGED sess

ActivatePolicy ==
    \E pid \in ReqPolicyIds, cid \in Companies :
        /\ Apply(activate_policy(Store, pid, cid))
        /\ UNCHANGED <<sess, pinned>>

Next ==
    \/ CreatePolicies
    \/ Cascade
    \/ Preview
    \/ SetOverride
    \/ ClearOverride
    \/ ActivatePolicy

Spec == Init /\ [][Next]_vars

(***************************************************************************)
(* cascade_policy and set_hedge_override served concurrently by the        *)
(* workers, one statement at a time.  The database is PostgreSQL at its    *)
(* default isolation (create_engine names none): a query sees the rows     *)
(* committed when it runs, an UPDATE waits for the rows another open       *)
(* transaction has written.  One override request is in flight at a time,  *)
(* so that an override write races cascades only.                          *)
(***************************************************************************)

\* The portfolio of the concurrent runs: 6M and 2M of company 1.
ConcInit ==
    /\ Init
    /\ exposures[1].company_id = 1
    /\ exposures[1].amount = 6000000

\* hedging_policies rows written by the open transactions of other workers.
LockedByOthers(w) ==
    UNION {DOMAIN sess[v].policy_writes : v \in Workers \ {w}}

Idle(w) == sess[w].pc = "idle"

InFlight(op) == {v \in Workers : sess[v].op = op}

\* A statement of worker w has run: r is its store and session.
Stepped(w, r, pc) ==
    /\ exposures' = r.store.exposures
    /\ policies' = r.store.policies
    /\ audit' = r.store.audit
    /\ sess' = [sess EXCEPT ![w] = [r.sess EXCEPT !.pc = pc]]

\* The request of worker w has returned r.
Returned(w, r) ==
    /\ Apply(r)
    /\ sess' = [sess EXCEPT ![w] = NoSession]

ConcCreatePolicies(w) ==
    /\ Idle(w)
    /\ Returned(w, create_policies(Store))
    /\ UNCHANGED pinned

\* cascade_policy up to the end of its loop.  Every worker may add one entry
\* to a log that is at its cap.
ConcCascadeLoad(w) ==
    /\ Idle(w)
    /\ Len(audit) + Cardinality(InFlight("cascade")) < MaxAudit + Cardinality(Workers)
    /\ \E pid \in ReqPolicyIds, cid \in Companies :
          IF PolicyFound(Store, pid, cid)
          THEN /\ sess' = [sess EXCEPT ![w] = CascadeLoad(Store, pid, cid)]
               /\ UNCHANGED <<exposures, policies, audit, last>>
          ELSE Returned(w, cascade_policy(Store, pid, cid, 0))
    /\ UNCHANGED pinned

\* set_hedge_override up to its commit.
ConcSetOverrideLoad(w) ==
    /\ Idle(w)
    /\ InFlight("set_override") = {}
    /\ \E eid \in ReqExposureIds, r \in ReqRatios :
          IF ValidRatio(r) /\ eid \in DOMAIN exposures
          THEN /\ sess' = [sess EXCEPT ![w] = SetOverrideLoad(Store, eid, r)]
               /\ UNCHANGED <<exposures, policies, audit, last>>
          ELSE Returned(w, set_hedge_override(Store, eid, r))
    /\ UNCHANGED pinned

\* The deactivating UPDATE of cascade_policy.
ConcDeactivate(w) ==
    /\ sess[w].op = "cascade" /\ sess[w].pc = "loaded"
    /\ CompanyPolicies(Store, sess[w].company_id) \cap LockedByOthers(w) = {}
    /\ Stepped(w, Deactivate(Store, sess[w]), "deactivated")
    /\ UNCHANGED <<last, pinned>>

\* The activating UPDATE of cascade_policy.
ConcActivate(w) ==
    /\ sess[w].op = "cascade" /\ sess[w].pc = "deactivated"
    /\ sess[w].policy_id \notin LockedByOthers(w)
    /\ Stepped(w, CascadeActivate(Store, sess[w]), "activated")
    /\ UNCHANGED <<last, pinned>>

\* db.commit() and the return.
ConcCommit(w) ==
    LET t == sess[w] IN
    /\ \/ t.op = "cascade" /\ t.pc = "activated"
       \/ t.op = "set_override" /\ t.pc = "loaded"
    /\ Returned(w,
          Result(Commit(Store, t,
                        IF t.op = "cascade" THEN <<AuditEntry(Store, t)>> ELSE <<>>),
                 Response(t.op, 200, t.updated, t.skipped)))
    /\ pinned' = IF t.op = "set_override"
                 THEN Pin(t.exposure_id, t.hedge_ratio) ELSE pinned

ConcNext ==
    \E w \in Workers :
        \/ ConcCreatePolicies(w)
        \/ ConcCascadeLoad(w)
        \/ ConcSetOverrideLoad(w)
        \/ ConcDeactivate(w)
        \/ ConcActivate(w)
        \/ ConcCommit(w)

ConcSpec == ConcInit /\ [][ConcNext]_vars

(***************************************************************************)
(* Properties                                                              *)
(***************************************************************************)

\* The exposures of company cid with the override flag set.
Overridden(s, cid) ==
    {e \in CompanyExposures(s, cid) : s.exposures[e].hedge_override}

\* The policies of company cid with the active flag set.
ActivePolicies(s, cid) ==
    {id \in CompanyPolicies(s, cid) : s.policies[id].is_active}

\* The cascade that returned last succeeded; its audit entry is the newest.
CascadeJustSucceeded == last.op = "cascade" /\ last.status = 200

LastEntry == audit[Len(audit)]

C2_ExactlyOneActive ==
    /\ \A c \in Companies :
          CompanyPolicies(Store, c) # {} =>
             Cardinality(ActivePolicies(Store, c)) = 1
    /\ CascadeJustSucceeded =>
          ActivePolicies(Store, LastEntry.company_id) = {LastEntry.policy_id}

\* C3: a cascade that fails after any of its statements and before its commit
\* leaves the stored state exactly as it was (no ratio, no active flag, no
\* audit entry), and one that commits applies all of its effects together:
\* the selected policy alone is active, every exposure of the company that
\* is not overridden holds its tier ratio, and the log has one more entry.
\* No reachable state has two active policies for one company.
C3_CascadeAllOrNothing ==
    /\ \A pid \in ReqPolicyIds, cid \in Companies :
        (pid \in DOMAIN policies /\ policies[pid].company_id = cid) =>
           /\ \A crash \in 1..3 :
                 /\ cascade_policy(Store, pid, cid, crash).store = Store
                 /\ cascade_policy(Store, pid, cid, crash).response.status = 500
           /\ LET r == cascade_policy(Store, pid, cid, 0).store IN
              /\ ActivePolicies(r, cid) = {pid}
              /\ \A e \in CompanyExposures(Store, cid) \ Overridden(Store, cid) :
                    r.exposures[e].hedge_ratio_policy =
                       NewRatio(policies[pid], exposures[e])
              /\ Len(r.audit) = Len(audit) + 1
              /\ r.audit[Len(r.audit)].policy_id = pid
    /\ \A c \in Companies : Cardinality(ActivePolicies(Store, c)) <= 1

\* C3 witness: a cascade has failed before its commit in a state where it had
\* ratios to write and flags to flip, and nothing of it is stored.
C3_Witness ==
    /\ last.op = "cascade" /\ last.status = 500
    /\ audit = <<>>
    /\ ActivePolicies(Store, 1) = {1}
    /\ \A e \in DOMAIN exposures :
          exposures[e].hedge_ratio_policy = 100 /\ ~exposures[e].hedge_override

\* C4: when cascades of one company run concurrently, the state left when the
\* last of them has returned and no request is in flight is the state a
\* serial order leaves: the policy of the cascade that committed last alone is
\* active and every exposure of the company that is not overridden holds that
\* policy's tier ratio.
C4_ConcurrentCascadesSerial ==
    (CascadeJustSucceeded /\ \A w \in Workers : Idle(w)) =>
        /\ ActivePolicies(Store, LastEntry.company_id) = {LastEntry.policy_id}
        /\ \A e \in CompanyExposures(Store, LastEntry.company_id) :
              ~exposures[e].hedge_override =>
                 exposures[e].hedge_ratio_policy =
                    NewRatio(policies[LastEntry.policy_id], exposures[e])

ExampleStore ==
    [exposures |->
        [e \in ExposureIds |->
            IF e = 1
            THEN NewExposure([company_id |-> 1, amount |-> 6000000,
                              current_rate |-> 10])
            ELSE [NewExposure(SecondKind) EXCEPT !.hedge_override = TRUE]],
     policies |->
        [id \in {1} |->
            [company_id |-> 1, policy_name |-> "Example",
             hedge_ratio_over_5m |-> 85, hedge_ratio_1m_to_5m |-> 65,
             hedge_ratio_under_1m |-> 40, is_active |-> FALSE]],
     audit |-> <<>>]

C8_PreviewIsDryRun ==
    \A pid \in ReqPolicyIds, cid \in Companies :
        LET r == preview_cascade(Store, pid, cid) IN
        /\ r.store.exposures = exposures
        /\ r.store.policies = policies
        /\ r.store.audit = audit
        /\ r.response.status = 200 =>
              /\ r.response.skipped = Cardinality(Overridden(Store, cid))
              /\ r.response.updated + r.response.skipped =
                    Cardinality(CompanyExposures(Store, cid))

\* C8 witness: a preview has succeeded, reporting exposures to update and to
\* skip, where a cascade would have written ratios, flags and a log entry:
\* the log is empty, the 6M exposure is at its initial ratio.
C8_Witness ==
    /\ last.op = "preview" /\ last.status = 200
    /\ last.updated = 1 /\ last.skipped = 1
    /\ audit = <<>>
    /\ \E e \in DOMAIN exposures :
          ~exposures[e].hedge_override /\ exposures[e].hedge_ratio_policy = 100

\* Nothing stored differs between s and the current state.
Unchanged(s) ==
    s.exposures = exposures /\ s.policies = policies /\ s.audit = audit

\* C9 as stated: a cascade or preview whose policy_id names no policy of the
\* company, and a set_override or clear_override whose exposure_id names no
\* exposure, returns NotFound (404, not the 400 of a validation error) and
\* changes nothing, whatever the other fields of the request.
C9_NotFoundForEveryRequest ==
    /\ \A pid \in ReqPolicyIds, cid \in Companies :
          ~(pid \in DOMAIN policies /\ policies[pid].company_id = cid) =>
             /\ cascade_policy(Store, pid, cid, 0).response.status = 404
             /\ Unchanged(cascade_policy(Store, pid, cid, 0).store)
             /\ preview_cascade(Store, pid, cid).response.status = 404
             /\ Unchanged(preview_cascade(Store, pid, cid).store)
    /\ \A eid \in ReqExposureIds \ DOMAIN exposures :
          /\ clear_hedge_override(Store, eid).response.status = 404
          /\ Unchanged(clear_hedge_override(Store, eid).store)
          /\ \A r \in ReqRatios :
                /\ set_hedge_override(Store, eid, r).response.status = 404
                /\ Unchanged(set_hedge_override(Store, eid, r).store)

\* C9 amended: as C9, where the set_override carries a hedge ratio in [0,1];
\* with a ratio outside [0,1] set_override returns the validation error
\* before it looks the exposure up, and changes nothing either.
C9_NotFoundForValidRequest ==
    /\ \A pid \in ReqPolicyIds, cid \in Companies :
          ~(pid \in DOMAIN policies /\ policies[pid].company_id = cid) =>
             /\ cascade_policy(Store, pid, cid, 0).response.status = 404
             /\ Unchanged(cascade_policy(Store, pid, cid, 0).store)
             /\ preview_cascade(Store, pid, cid).response.status = 404
             /\ Unchanged(preview_cascade(Store, pid, cid).store)
    /\ \A eid \in ReqExposureIds \ DOMAIN exposures :
          /\ clear_hedge_override(Store, eid).response.status = 404
          /\ Unchanged(clear_hedge_override(Store, eid).store)
          /\ \A r \in ReqRatios :
                /\ Unchanged(set_hedge_override(Store, eid, r).store)
                /\ set_hedge_override(Store, eid, r).response.status =
                      IF 0 <= r /\ r <= 100 THEN 404 ELSE 400
    /\ last.status = 404 =>
          /\ last.op \in {"cascade", "preview", "set_override", "clear_override"}
          /\ last.updated = 0 /\ last.skipped = 0

\* C9 witness: a set_override with a ratio in [0,1] naming no exposure has
\* returned 404 in a state with policies and an overridden exposure, after a
\* cascade naming a policy of no company was refused: the log is empty.
C9_Witness ==
    /\ last.op = "set_override" /\ last.status = 404
    /\ policies # EmptyFn
    /\ audit = <<>>
    /\ ActivePolicies(Store, 1) = {1}
    /\ \E e \in DOMAIN exposures : exposures[e].hedge_override

delete_company(s, cid) ==
    IF cid = 1
    THEN Result(s, Response("delete_company", 400, 0, 0))
    ELSE Result([exposures |-> [e \in DOMAIN s.exposures \ CompanyExposures(s, cid)
                                   |-> s.exposures[e]],
                 policies  |-> [id \in DOMAIN s.policies \ CompanyPolicies(s, cid)
                                   |-> s.policies[id]],
                 audit     |-> SelectSeq(s.audit, LAMBDA a : a.company_id # cid)],
                Response("delete_company", 200, 0, 0))

DeleteCompany ==
    \E cid \in Companies :
        /\ Apply(delete_company(Store, cid))
        /\ pinned' = [e \in DOMAIN pinned \cap DOMAIN delete_company(Store, cid).store.exposures
                         |-> pinned[e]]
        /\ UNCHANGED sess

AdminNext ==
    \/ Next
    \/ DeleteCompany

\* hedging_policies is created and filled outside the application (no
\* statement of the repository creates it, and create_policies fills it for
\* company 1 only), while every handler takes the company as a parameter:
\* the database the application starts on holds the policies of the tenants
\* provisioned so far.  Here company 1 has its three policies and company 2
\* has one, and each company has one exposure.
AdminInit ==
    /\ exposures = [e \in ExposureIds |->
                       IF e = 1 THEN [NewExposure(SecondKind) EXCEPT !.company_id = 2]
                       ELSE NewExposure(SecondKind)]
    /\ policies = [id \in {1, 2, 3, 9} |->
                      IF id = 9 THEN [PolicyTemplates[1] EXCEPT !.company_id = 2]
                      ELSE PolicyTemplates[id]]
    /\ audit = <<>>
    /\ sess = [w \in Workers |-> NoSession]
    /\ last = NoResponse
    /\ pinned = EmptyFn

\* The requests served one at a time, the admin's delete_company among them.
AdminSpec == AdminInit /\ [][AdminNext]_vars

default_scenarios == 120

\* tolist()[:100]: the number of scenarios a result carries at most.
OutcomeCap == 100

ExpScale == 20000

\* The stream of standard normal draws of the generator after
\* np.random.seed(42), numbered from 0: a fixed stream, the same after every
\* seeding.  A stream of mean 0 that takes 101 values between -2.5 and 2.5
\* stands for it.
Draw42(k) == 5 * (((k * 37 + 11) % 101) - 50)

\* The position of numpy's global generator in that stream when the draws
\* begin, had it not been seeded: where the calls before left it.
ContinuedPosition == last.rng

\* np.random.seed(42), run by every run_simulation before it draws: the
\* generator is back at the start of the stream.
SeededPosition == 0

\* np.random.normal(0, 1, (num_scenarios, num_steps))[i, t], rows and columns
\* numbered from 0: the array is filled from the stream row by row.
Shock(num_steps, i, t) == Draw42(SeededPosition + i * num_steps + t)

\* Twice (drift - 0.5 * volatility**2) * dt + volatility * sqrt(dt) * shock.
Exponent2(volatility, drift, shock) ==
    2 * drift - volatility * volatility + 2 * volatility * shock

RECURSIVE PathExponent2(_, _, _, _, _, _)
\* The loop over t of run_simulation, steps t in lo..hi-1 of scenario i: the
\* product of the exponentials of the steps is the exponential of the sum
\* of their exponents (summed by halves of the range).
PathExponent2(volatility, drift, num_steps, i, lo, hi) ==
    IF hi <= lo THEN 0
    ELSE IF hi = lo + 1
    THEN Exponent2(volatility, drift, Shock(num_steps, i, lo))
    ELSE LET mid == (lo + hi) \div 2
         IN  PathExponent2(volatility, drift, num_steps, i, lo, mid)
             + PathExponent2(volatility, drift, num_steps, i, mid, hi)

\* np.exp of half of x2, on the scale ExpScale.
Exp(x2) == IF ExpScale + x2 > 0 THEN ExpScale + x2 ELSE 1

\* estimate_volatility_from_pair; a currency pair is the tuple of its codes.
estimate_volatility_from_pair(currency_pair) ==
    IF currency_pair \in {<<"EUR", "USD">>, <<"GBP", "USD">>, <<"USD", "JPY">>,
                          <<"USD", "CHF">>, <<"AUD", "USD">>, <<"USD", "CAD">>}
    THEN 8
    ELSE IF \E j \in DOMAIN currency_pair :
               currency_pair[j] \in {"BRL", "MXN", "ZAR", "INR", "TRY"}
    THEN 15
    ELSE IF \E j \in DOMAIN currency_pair :
               currency_pair[j] \in {"AUD", "NZD", "CAD", "NOK"}
    THEN 12
    ELSE 10

\* Percentile counted from the top of the sorted sample.
PercentileFromTop(a, q) ==
    LET sorted == SortSeq(a, LAMBDA x, y : x > y)
        n      == Len(a)
        pos    == q * (n - 1)
        lo     == pos \div 100
        rem    == pos % 100
        hi     == IF lo + 1 <= n - 1 THEN lo + 1 ELSE lo
    IN  sorted[lo + 1] * (100 - rem) + sorted[hi + 1] * rem

\* np.percentile(a, q), times 100: linear interpolation between the order
\* statistics around position q/100 * (n - 1) of the sorted sample.
Percentile(a, q) ==
    LET sorted == SortSeq(a, LAMBDA x, y : x < y)
        n      == Len(a)
        pos    == q * (n - 1)
        lo     == pos \div 100
        rem    == pos % 100
        hi     == IF lo + 1 <= n - 1 THEN lo + 1 ELSE lo
    IN  sorted[lo + 1] * (100 - rem) + sorted[hi + 1] * rem

\* list[:k]
Truncate(a, k) == SubSeq(a, 1, IF Len(a) < k THEN Len(a) ELSE k)

\* The risk metrics computed from a P&L sample (var_95, var_99, max_loss,
\* max_gain, and probability_of_loss as the count of losses over the count
\* of scenarios).
RiskMetrics(pnl, num_scenarios) ==
    [var_95 |-> Percentile(pnl, 5),
     var_99 |-> Percentile(pnl, 1),
     max_loss |-> CHOOSE x \in {pnl[i] : i \in DOMAIN pnl} :
                     \A i \in DOMAIN pnl : x <= pnl[i],
     max_gain |-> CHOOSE x \in {pnl[i] : i \in DOMAIN pnl} :
                     \A i \in DOMAIN pnl : x >= pnl[i],
     losses |-> Cardinality({i \in DOMAIN pnl : pnl[i] < 0}),
     scenarios |-> num_scenarios]

\* x or y: y when x is None or zero (None is carried as 0).
Or(x, y) == IF x = 0 THEN y ELSE x

\* final_rates of run_simulation: the last column of rate_paths.
FinalRates(current_rate, time_horizon_days, volatility, num_scenarios, drift) ==
    [i \in 1..num_scenarios |->
        current_rate * Exp(PathExponent2(volatility, drift, time_horizon_days,
                                         i - 1, 0, time_horizon_days))]

\* run_simulation: the defaults, the paths, the P&L of every scenario, the
\* metrics of the whole sample, and the outcomes cut to their first
\* OutcomeCap scenarios.  No argument is checked.
run_simulation(current_rate, amount, time_horizon_days, volatility, num_scenarios, drift, currency_pair) ==
    LET n     == Or(num_scenarios, default_scenarios)
        vol   == Or(volatility, estimate_volatility_from_pair(currency_pair))
        final_rates == FinalRates(current_rate, time_horizon_days, vol, n, drift)
        initial_value_usd == amount * current_rate * ExpScale
        final_values_usd  == [i \in 1..n |-> amount * final_rates[i]]
        pnl   == [i \in 1..n |-> final_values_usd[i] - initial_value_usd]
    IN  [status |-> "ok",
         simulation_params |->
            [current_rate |-> current_rate, amount |-> amount,
             time_horizon_days |-> time_horizon_days, volatility |-> vol,
             num_scenarios |-> n, drift |-> drift,
             currency_pair |-> currency_pair],
         outcomes |->
            [simulated_rates |-> Truncate(final_rates, OutcomeCap),
             simulated_values_usd |-> Truncate(final_values_usd, OutcomeCap),
             simulated_pnl |-> Truncate(pnl, OutcomeCap)],
         risk_metrics |-> RiskMetrics(pnl, n)]

\* The exception a call ends with.
Raised(error) == [status |-> error]

\* A call of run_simulation by keyword: a keyword the signature does not
\* name (random_seed) is a TypeError raised before the body runs.
call_run_simulation(kw) ==
    IF kw.random_seed # 0
    THEN Raised("TypeError")
    ELSE run_simulation(kw.current_rate, kw.amount, kw.time_horizon_days,
                        kw.volatility, kw.num_scenarios, kw.drift,
                        kw.currency_pair)

\* The call run_portfolio_simulation makes for one exposure: volatility and
\* drift are left to their defaults.
ExposureResult(exp, time_horizon_days, num_scenarios) ==
    run_simulation(exp.current_rate, exp.amount, time_horizon_days, 0,
                   num_scenarios, 0, exp.currency_pair)

\* portfolio_pnl += np.array(...): numpy adds arrays of one length element by
\* element and spreads an array of one element; any other pair of lengths
\* is a ValueError (operands could not be broadcast together).
Broadcasts(acc, arr) == Len(arr) = Len(acc) \/ Len(arr) = 1

AddInPlace(acc, arr) ==
    [i \in 1..Len(acc) |-> acc[i] + (IF Len(arr) = 1 THEN arr[1] ELSE arr[i])]

RECURSIVE PortfolioLoop(_, _, _, _, _)
\* The loop of run_portfolio_simulation from exposure k on: the accumulated
\* portfolio_pnl, or the exception that ends the loop.
PortfolioLoop(exposure_list, time_horizon_days, num_scenarios, k, acc) ==
    IF k > Len(exposure_list) THEN [status |-> "ok", portfolio_pnl |-> acc]
    ELSE LET arr == ExposureResult(exposure_list[k], time_horizon_days,
                                   num_scenarios).outcomes.simulated_pnl
         IN  IF ~Broadcasts(acc, arr) THEN Raised("ValueError")
             ELSE PortfolioLoop(exposure_list, time_horizon_days, num_scenarios,
                                k + 1, AddInPlace(acc, arr))

\* run_portfolio_simulation: the default count, the loop over the exposures,
\* the metrics of the summed sample.
run_portfolio_simulation(exposure_list, time_horizon_days, num_scenarios) ==
    LET n    == Or(num_scenarios, default_scenarios)
        loop == PortfolioLoop(exposure_list, time_horizon_days, n, 1,
                              [i \in 1..n |-> 0])
    IN  IF loop.status # "ok" THEN loop
        ELSE [status |-> "ok",
              portfolio_metrics |->
                 [total_exposures |-> Len(exposure_list),
                  time_horizon_days |-> time_horizon_days,
                  num_scenarios |-> n,
                  risk_metrics |-> RiskMetrics(loop.portfolio_pnl, n)],
              individual_exposures |->
                 [k \in 1..Len(exposure_list) |->
                     [exposure_id |-> exposure_list[k].id,
                      currency_pair |-> exposure_list[k].currency_pair,
                      result |-> ExposureResult(exposure_list[k],
                                                time_horizon_days, n)]],
              sample_portfolio_pnl |-> Truncate(loop.portfolio_pnl, OutcomeCap)]

\* A call of run_portfolio_simulation by keyword: random_seed is no parameter
\* of it either.
call_run_portfolio_simulation(kw) ==
    IF kw.random_seed # 0
    THEN Raised("TypeError")
    ELSE run_portfolio_simulation(kw.exposures, kw.time_horizon_days,
                                  kw.num_scenarios)

\* PortfolioSimulationRequest: time_horizon_days in [1, 365] and
\* num_scenarios None or in [100, 100000], checked before the handler runs.
PortfolioRequestValid(time_horizon_days, num_scenarios) ==
    /\ time_horizon_days >= 1 /\ time_horizon_days <= 365
    /\ num_scenarios = 0 \/ (num_scenarios >= 100 /\ num_scenarios <= 100000)

\* exposure_data of simulate_portfolio_exposure, in the order of the ids.
RECURSIVE ExposureData(_, _)
ExposureData(s, ids) ==
    IF ids = {} THEN <<>>
    ELSE LET e == CHOOSE x \in ids : \A y \in ids : x <= y
         IN  <<[id |-> e, amount |-> s.exposures[e].amount,
                current_rate |-> Or(s.exposures[e].current_rate, 1),
                currency_pair |-> <<s.exposures[e].from_currency, "/",
                                    s.exposures[e].to_currency>>]>>
             \o ExposureData(s, ids \ {e})

\* The service called for every company, with or without exposures.
PortfolioOfAnyCompany(s, company_id, time_horizon_days, num_scenarios) ==
    IF ~PortfolioRequestValid(time_horizon_days, num_scenarios)
    THEN [status |-> 422]
    ELSE LET r == run_portfolio_simulation(
                     ExposureData(s, CompanyExposures(s, company_id)),
                     time_horizon_days, Or(num_scenarios, 10000))
         IN  IF r.status = "ValueError" THEN [status |-> 400]
             ELSE [status |-> 200, portfolio_simulation |-> r]

\* simulate_portfolio_exposure: 404 for a company without exposures, else the
\* service on the company's exposures; its ValueError is answered with 400.
simulate_portfolio_exposure(s, company_id, time_horizon_days, num_scenarios) ==
    IF ~PortfolioRequestValid(time_horizon_days, num_scenarios)
    THEN [status |-> 422]
    ELSE IF CompanyExposures(s, company_id) = {}
    THEN [status |-> 404]
    ELSE LET r == run_portfolio_simulation(
                     ExposureData(s, CompanyExposures(s, company_id)),
                     time_horizon_days, Or(num_scenarios, 10000))
         IN  IF r.status = "ValueError" THEN [status |-> 400]
             ELSE [status |-> 200, portfolio_simulation |-> r]

(***************************************************************************)
(* HedgingService.run_scenario_analysis.  An exposure amount is in          *)
(* thousands, a rate in thousandths, a rate change and a hedge ratio in     *)
(* percent; a P&L is in cents and new_rate in hundred-thousandths.          *)
(***************************************************************************)

\* HedgingService.SCENARIOS
SCENARIOS ==
    [conservative |-> <<-5, -3, 0, 3, 5>>,
     moderate     |-> <<-10, -5, 0, 5, 10>>,
     aggressive   |-> <<-15, -10, -5, 0, 5, 10, 15>>]

\* _classify_scenario
classify_scenario(rate_change) ==
    IF rate_change <= -10 THEN "Severe Adverse"
    ELSE IF rate_change <= -5 THEN "Moderate Adverse"
    ELSE IF rate_change < 0 THEN "Mild Adverse"
    ELSE IF rate_change = 0 THEN "No Change"
    ELSE IF rate_change <= 5 THEN "Mild Favorable"
    ELSE IF rate_change <= 10 THEN "Moderate Favorable"
    ELSE "Severe Favorable"

\* round(x, 2) of an amount given in hundredths of a cent, without rounding.
Round2Floor(x100, tie_up) == x100 \div 100

\* round(x, 2) of an amount given in hundredths of a cent: the nearest cent.
\* For an amount half way between two cents the result is decided by the
\* binary value the floating-point product has, above or below the half:
\* tie_up tells which.
Round2(x100, tie_up) ==
    LET q   == x100 \div 100
        rem == x100 % 100
    IN  IF rem > 50 \/ (rem = 50 /\ tie_up) THEN q + 1 ELSE q

\* One entry of results: the loop body of run_scenario_analysis.
ScenarioRow(exposure_amount, current_rate, hedge_ratio, rate_change, tie_up) ==
    LET exact100 == exposure_amount * current_rate * rate_change * 100
        hedged100 == exposure_amount * (100 - hedge_ratio)
                        * current_rate * rate_change
    IN  [rate_change_pct |-> rate_change,
         new_rate |-> current_rate * (100 + rate_change),
         unhedged_pnl |-> Round2(exact100, tie_up),
         hedged_pnl |-> Round2(hedged100, tie_up),
         hedge_benefit |-> Round2(exact100 - hedged100, tie_up),
         scenario |-> classify_scenario(rate_change)]

\* run_scenario_analysis: the rate changes of the scenario type (those of
\* 'moderate' for a type SCENARIOS does not name) and one entry for each.
run_scenario_analysis(exposure_amount, current_rate, hedge_ratio, scenario_type, tie_up) ==
    LET scenarios == IF scenario_type \in DOMAIN SCENARIOS
                     THEN SCENARIOS[scenario_type] ELSE SCENARIOS["moderate"]
    IN  [status |-> "ok",
         scenario_type |-> scenario_type,
         hedge_ratio |-> hedge_ratio,
         current_rate |-> current_rate,
         exposure_amount |-> exposure_amount,
         scenarios |-> [k \in DOMAIN scenarios |->
                           ScenarioRow(exposure_amount, current_rate,
                                       hedge_ratio, scenarios[k], tie_up)]]


(***************************************************************************)
(* HedgingService.calculate_pnl_impact.  An exposure amount is in tens, a   *)
(* rate in thousandths, a hedge ratio in percent; a P&L is returned in      *)
(* cents, and carried in hundredths of a cent before it is rounded.         *)
(***************************************************************************)

\* hedged_pnl as the P&L of a forward that offsets the exposure.
HedgedPnlOffsetting(exposure_amount, contract_rate, current_rate, hedge_ratio) ==
    exposure_amount * hedge_ratio * (contract_rate - current_rate)

\* hedged_pnl = hedged_amount * (current_rate - contract_rate), in
\* hundredths of a cent.
HedgedPnl(exposure_amount, contract_rate, current_rate, hedge_ratio) ==
    exposure_amount * hedge_ratio * (current_rate - contract_rate)

\* unhedged_pnl = exposure_amount * (current_rate - contract_rate), in
\* hundredths of a cent.
UnhedgedPnl(exposure_amount, contract_rate, current_rate) ==
    exposure_amount * 100 * (current_rate - contract_rate)

\* _calculate_hedge_effectiveness grading by magnitude whatever the signs.
EffectivenessByMagnitude(hedged_pnl, unhedged_pnl) ==
    IF unhedged_pnl = 0 THEN "Neutral"
    ELSE LET h == IF hedged_pnl < 0 THEN -hedged_pnl ELSE hedged_pnl
             u == IF unhedged_pnl < 0 THEN -unhedged_pnl ELSE unhedged_pnl
         IN  IF h * 10 >= u * 9 THEN "Highly Effective"
             ELSE IF h * 10 >= u * 7 THEN "Effective"
             ELSE "Partially Effective"

\* _calculate_hedge_effectiveness on the unrounded P&Ls.
calculate_hedge_effectiveness(hedged_pnl, unhedged_pnl) ==
    IF unhedged_pnl = 0 THEN "Neutral"
    ELSE IF (hedged_pnl < 0 /\ unhedged_pnl > 0) \/ (hedged_pnl > 0 /\ unhedged_pnl < 0)
    THEN LET h == IF hedged_pnl < 0 THEN -hedged_pnl ELSE hedged_pnl
             u == IF unhedged_pnl < 0 THEN -unhedged_pnl ELSE unhedged_pnl
         IN  IF h * 10 >= u * 9 THEN "Highly Effective"
             ELSE IF h * 10 >= u * 7 THEN "Effective"
             ELSE "Partially Effective"
    ELSE "Ineffective"

\* calculate_pnl_impact: no argument is checked; the division by
\* contract_rate for rate_difference_pct raises ZeroDivisionError when the
\* rate is zero.
calculate_pnl_impact(exposure_amount, contract_rate, current_rate, hedge_ratio, tie_up) ==
    LET hedged_pnl   == HedgedPnl(exposure_amount, contract_rate, current_rate,
                                  hedge_ratio)
        unhedged_pnl == UnhedgedPnl(exposure_amount, contract_rate, current_rate)
    IN  IF contract_rate = 0 THEN Raised("ZeroDivisionError")
        ELSE [status |-> "ok",
              hedged_amount |-> exposure_amount * hedge_ratio * 10,
              unhedged_amount |-> exposure_amount * (100 - hedge_ratio) * 10,
              contract_rate |-> contract_rate,
              current_rate |-> current_rate,
              rate_difference |-> current_rate - contract_rate,
              hedged_pnl |-> Round2(hedged_pnl, tie_up),
              unhedged_pnl |-> Round2(unhedged_pnl, tie_up),
              opportunity_impact |-> Round2(hedged_pnl - unhedged_pnl, tie_up),
              hedge_effectiveness |->
                 calculate_hedge_effectiveness(hedged_pnl, unhedged_pnl)]


(***************************************************************************)
(* HedgingService.recommend_rollover.  A time is a number of hours.         *)
(***************************************************************************)

\* (maturity_date - datetime.now()).days: the whole days of the difference,
\* counted downwards.
DaysToMaturity(maturity_date, now) == (maturity_date - now) \div 24

\* The urgency tag with the week's bound left out of High.
UrgencyStrict(days_to_maturity) ==
    IF days_to_maturity < 7 THEN "High"
    ELSE IF days_to_maturity <= 30 THEN "Medium" ELSE "Low"

\* 'High' if days_to_maturity <= 7 else 'Medium' if days_to_maturity <= 30
\* else 'Low'
Urgency(days_to_maturity) ==
    IF days_to_maturity <= 7 THEN "High"
    ELSE IF days_to_maturity <= 30 THEN "Medium" ELSE "Low"

\* recommend_rollover
recommend_rollover(maturity_date, now, current_exposure, market_outlook) ==
    LET days_to_maturity == DaysToMaturity(maturity_date, now)
        advice ==
           IF days_to_maturity > 30
           THEN <<"Monitor", "Review 30 days before maturity">>
           ELSE IF days_to_maturity > 7
           THEN IF market_outlook = "bearish"
                THEN <<"Roll Over Early",
                       "Lock in current rates before further deterioration">>
                ELSE IF market_outlook = "bullish"
                THEN <<"Let Mature", "Wait for potential rate improvement">>
                ELSE <<"Prepare to Roll",
                       "Assess market conditions and decide next week">>
           ELSE IF current_exposure > 0
           THEN <<"Take Action Now", "Roll over to maintain hedge protection">>
           ELSE <<"Take Action Now", "Allow to mature if exposure has reduced">>
    IN  [status |-> "ok",
         days_to_maturity |-> days_to_maturity,
         recommendation |-> advice[1],
         action |-> advice[2],
         market_outlook |-> market_outlook,
         urgency |-> Urgency(days_to_maturity)]


(***************************************************************************)
(* HedgingService.calculate_optimal_hedge_ratio.  The exposure amount is a  *)
(* whole number, the rate is in thousandths, the volatility in percent, the *)
(* time factor in thousandths, the adjusted volatility and the two values   *)
(* at risk in ten-thousandths, the recommended ratio in percent.  The       *)
(* hedge_analysis table and the rationale text of the result, which are     *)
(* derived from the same figures, are not carried.                          *)
(***************************************************************************)

\* np.sqrt(time_horizon_days / 365), in thousandths
TimeFactor(time_horizon_days) ==
    LET x == (time_horizon_days * 1000000) \div 365
    IN  CHOOSE k \in 0..1100 : k * k <= x /\ x < (k + 1) * (k + 1)

\* historical_volatility * time_factor, in ten-thousandths
AdjustedVolatility(historical_volatility, time_horizon_days) ==
    (historical_volatility * TimeFactor(time_horizon_days)) \div 10

\* current_rate * adjusted_volatility * z, in ten-thousandths; z in thousandths
ValueAtRisk(current_rate, adjusted_volatility, z) ==
    ((((current_rate * adjusted_volatility) \div 1000) \div 10) * z) \div 100

\* The moderate ratio without the cap of 0.75.
ModerateRatioUncapped(var_95, exposure_amount) == (var_95 * exposure_amount) \div exposure_amount

\* min(0.75, (var_95 * exposure_amount) / exposure_amount), in ten-thousandths
ModerateRatio(var_95, exposure_amount) ==
    LET covered == (var_95 * exposure_amount) \div exposure_amount
    IN  IF covered < 7500 THEN covered ELSE 7500

\* calculate_optimal_hedge_ratio
calculate_optimal_hedge_ratio(exposure_amount, current_rate, historical_volatility, time_horizon_days, risk_tolerance, tie_up) ==
    LET adjusted_volatility ==
            AdjustedVolatility(historical_volatility, time_horizon_days)
        var_95 == ValueAtRisk(current_rate, adjusted_volatility, 1645)
        var_99 == ValueAtRisk(current_rate, adjusted_volatility, 2326)
        recommended_ratio ==
            IF risk_tolerance = "low" THEN 10000
            ELSE IF risk_tolerance = "moderate"
            THEN ModerateRatio(var_95, exposure_amount)
            ELSE 5000
        confidence_level ==
            IF risk_tolerance = "low" THEN 99
            ELSE IF risk_tolerance = "moderate" THEN 95 ELSE 90
    IN  IF risk_tolerance = "moderate" /\ exposure_amount = 0
        THEN Raised("ZeroDivisionError")
        ELSE [status |-> "ok",
              recommended_ratio |-> Round2(recommended_ratio, tie_up),
              confidence_level |-> confidence_level,
              var_95 |-> var_95,
              var_99 |-> var_99,
              time_horizon_days |-> time_horizon_days,
              adjusted_volatility |-> adjusted_volatility]


(***************************************************************************)
(* calculate_pnl_and_status of birk_api.py.  A nullable column is a         *)
(* sequence: empty for None, the value alone otherwise.  Rates are in       *)
(* thousandths, the hedge ratio in percent, the amount and the two limits   *)
(* in whole units; the P&L is carried in thousandths of a unit and returned *)
(* in cents, the two amounts are returned in cents.                         *)
(***************************************************************************)

None == <<>>

Some(x) == <<x>>

\* Python's truth of a nullable number: None and 0 are false.
Truthy(x) == x # None /\ x[1] # 0

\* The warning level placed at nine tenths of the limit.
BelowWarningLevelInside(pnl, max_loss_limit) == pnl * 10 < max_loss_limit * 1000 * 9

\* pnl < (exposure.max_loss_limit * 1.1)
BelowWarningLevel(pnl, max_loss_limit) == pnl * 10 < max_loss_limit * 1000 * 11

\* calculate_pnl_and_status
calculate_pnl_and_status(exposure, current_rate, tie_up) ==
    IF ~Truthy(exposure.budget_rate) \/ ~Truthy(current_rate)
    THEN [current_pnl |-> None, hedged_amount |-> None,
          unhedged_amount |-> None, pnl_status |-> "NO_DATA"]
    ELSE LET pnl == (current_rate[1] - exposure.budget_rate[1]) * exposure.amount
             hedge_ratio == IF Truthy(exposure.hedge_ratio_policy)
                            THEN exposure.hedge_ratio_policy[1] ELSE 100
             hedged_amt == exposure.amount * hedge_ratio
             unhedged_amt == exposure.amount * (100 - hedge_ratio)
             status ==
                IF exposure.max_loss_limit # None
                   /\ pnl < exposure.max_loss_limit[1] * 1000
                THEN "BREACH"
                ELSE IF exposure.max_loss_limit # None
                        /\ BelowWarningLevel(pnl, exposure.max_loss_limit[1])
                THEN "WARNING"
                ELSE IF exposure.target_profit # None
                        /\ pnl >= exposure.target_profit[1] * 1000
                THEN "TARGET_MET"
                ELSE "OK"
         IN  [current_pnl |-> Some(Round2(pnl * 10, tie_up)),
              hedged_amount |-> Some(Round2(hedged_amt * 100, tie_up)),
              unhedged_amount |-> Some(Round2(unhedged_amt * 100, tie_up)),
              pnl_status |-> status]

(***************************************************************************)
(* The services called once each: the initial state holds a call and its    *)
(* arguments, the step of the called operation puts its result beside them. *)
(***************************************************************************)

CurrencyPairs ==
    {<<"EUR", "USD">>, <<"USD", "BRL">>, <<"NZD", "USD">>, <<"UNKNOWN">>}

\* Keyword arguments of run_simulation; 0 is an argument left out or None.
\* The horizons at the upper end of the valid range are taken with one
\* choice of the other arguments.
SimulationCalls ==
    [current_rate : {-1, 0, 1}, amount : {0, 2},
     time_horizon_days : {0, 1, 2}, volatility : {0, 10},
     num_scenarios : {0, 100, 101}, drift : {0, 2500},
     currency_pair : CurrencyPairs, random_seed : {0, 42}]
    \cup
    [current_rate : {1}, amount : {2},
     time_horizon_days : {365, 366}, volatility : {0, 10},
     num_scenarios : {100, 101}, drift : {0},
     currency_pair : {<<"EUR", "USD">>}, random_seed : {0, 42}]

ExposureDicts ==
    {[id |-> 1, current_rate |-> 1, amount |-> 2, currency_pair |-> <<"EUR", "USD">>],
     [id |-> 2, current_rate |-> 2, amount |-> 1, currency_pair |-> <<"USD", "BRL">>],
     [id |-> 3, current_rate |-> 3, amount |-> 1, currency_pair |-> <<"GBP", "USD">>]}

ExposureLists ==
    {<<>>} \cup {<<a>> : a \in ExposureDicts}
           \cup {<<a, b>> : a \in ExposureDicts, b \in ExposureDicts}

\* Keyword arguments of run_portfolio_simulation.
PortfolioCalls ==
    [exposures : ExposureLists, time_horizon_days : {1, 2},
     num_scenarios : {0, 50, 100, 101}, random_seed : {0, 42}]

\* Requests of POST /api/monte-carlo/simulate/portfolio.
PortfolioRequests ==
    [company_id : Companies, time_horizon_days : {0, 1, 2},
     num_scenarios : {99, 100, 101}]

\* The exposures table the portfolio route reads: company 1 has two
\* exposures, one without a current rate, and company 2 has none.
StoredExposures ==
    [e \in ExposureIds |->
        [company_id |-> 1, amount |-> e,
         current_rate |-> IF e = 1 THEN 2 ELSE 0,
         from_currency |-> IF e = 1 THEN "EUR" ELSE "USD",
         to_currency |-> IF e = 1 THEN "USD" ELSE "BRL"]]

\* Arguments of run_scenario_analysis.
ScenarioCalls ==
    [exposure_amount : {1, 1000}, current_rate : {1000, 1085},
     hedge_ratio : {0, 50, 65, 100},
     scenario_type : {"conservative", "moderate", "aggressive", "stress"}]

\* Arguments of calculate_pnl_impact.
PnlImpactCalls ==
    [exposure_amount : {105, 100000}, contract_rate : {0, 1080, 1095},
     current_rate : {1080, 1095}, hedge_ratio : {-95, -80, -50, 0, 75, 100}]

\* Arguments of recommend_rollover, with the time of the call: maturities
\* from two days before the call to 31 days after it.
RolloverCalls ==
    [maturity_date : {1000 + h : h \in {-25, -1, 0, 167, 168, 191, 192, 719,
                                        720, 743, 744, 745}},
     now : {1000}, current_exposure : {-1, 0, 500000},
     market_outlook : {"bullish", "neutral", "bearish", "sideways"}]

\* Arguments of calculate_optimal_hedge_ratio: the amounts, rates,
\* volatilities and horizons HedgeRecommendationRequest admits, and a zero
\* amount, a negative rate and a horizon of no days, which it does not.
HedgeRatioCalls ==
    [exposure_amount : {0, 1, 500},
     current_rate : {-1085, 1, 1085, 149250},
     historical_volatility : {1, 8, 45, 100},
     time_horizon_days : {0, 1, 90, 365},
     risk_tolerance : {"low", "moderate", "high"}]

\* Arguments of calculate_pnl_and_status: an exposure row with its budget
\* columns, each absent or set, and the rate of the day, absent, zero or
\* from 0.4 to 1.6.
PnlStatusCalls ==
    [exposure : [budget_rate : {None, Some(0), Some(1000)},
                 amount : {1, 1000},
                 hedge_ratio_policy : {None, Some(0), Some(50)},
                 max_loss_limit : {None, Some(-500), Some(0), Some(500)},
                 target_profit : {None, Some(300)}],
     current_rate : {None} \cup {Some(r) : r \in {0, 400, 480, 500, 525, 985,
                                                  1000, 1300, 1500, 1520, 1600}}]

Pending == [status |-> "pending"]

\* Positions the generator may be in when a call arrives.
GeneratorPositions == {0, 100}

\* The service process with one call to serve: the call, its result, the
\* result of the same call made once more, and the generator's position.
Call(op, args) ==
    [op |-> op, phase |-> "call", args |-> args, result |-> Pending,
     again |-> Pending, rng |-> 0]

ServiceInit ==
    /\ exposures = StoredExposures
    /\ policies = EmptyFn
    /\ audit = <<>>
    /\ sess = [w \in Workers |-> NoSession]
    /\ pinned = EmptyFn
    /\ \/ \E kw \in SimulationCalls, g \in GeneratorPositions :
             last = [Call("run_simulation", kw) EXCEPT !.rng = g]
       \/ \E kw \in PortfolioCalls : last = Call("run_portfolio_simulation", kw)
       \/ \E rq \in PortfolioRequests : last = Call("simulate_portfolio_exposure", rq)
       \/ \E a \in ScenarioCalls : last = Call("run_scenario_analysis", a)
       \/ \E a \in PnlImpactCalls : last = Call("calculate_pnl_impact", a)
       \/ \E a \in RolloverCalls : last = Call("recommend_rollover", a)
       \/ \E a \in PnlStatusCalls : last = Call("calculate_pnl_and_status", a)
       \/ \E a \in HedgeRatioCalls :
             last = Call("calculate_optimal_hedge_ratio", a)

Calling(op) == last.phase = "call" /\ last.op = op

HasReturned(op) == last.phase = "returned" /\ last.op = op

Return(result) ==
    /\ last' = [last EXCEPT !.phase = "returned", !.result = result]
    /\ UNCHANGED <<exposures, policies, audit, sess, pinned>>

\* The generator after a call that ran run_simulation with num_scenarios
\* paths of num_steps steps: seeded, then drawn from once for every step of
\* every path.
GeneratorAfter(num_scenarios, num_steps) ==
    SeededPosition + num_scenarios * num_steps

ReturnDrawn(result, rng) ==
    /\ last' = [last EXCEPT !.phase = "returned", !.result = result, !.rng = rng]
    /\ UNCHANGED <<exposures, policies, audit, sess, pinned>>

RunSimulation ==
    /\ Calling("run_simulation")
    /\ LET result == call_run_simulation(last.args)
       IN  ReturnDrawn(result,
              IF result.status # "ok" THEN last.rng
              ELSE GeneratorAfter(result.simulation_params.num_scenarios,
                                  last.args.time_horizon_days))

\* The call that has returned is made once more, with the same arguments.
RunSimulationAgain ==
    /\ HasReturned("run_simulation")
    /\ LET result == call_run_simulation(last.args)
       IN  last' = [last EXCEPT
                      !.phase = "repeated", !.again = result,
                      !.rng = IF result.status # "ok" THEN @
                              ELSE GeneratorAfter(
                                      result.simulation_params.num_scenarios,
                                      last.args.time_horizon_days)]
    /\ UNCHANGED <<exposures, policies, audit, sess, pinned>>

RunPortfolioSimulation ==
    /\ Calling("run_portfolio_simulation")
    /\ ReturnDrawn(call_run_portfolio_simulation(last.args),
          IF last.args.random_seed # 0 \/ last.args.exposures = <<>>
          THEN last.rng
          ELSE GeneratorAfter(Or(last.args.num_scenarios, default_scenarios),
                              last.args.time_horizon_days))

SimulatePortfolioExposure ==
    /\ Calling("simulate_portfolio_exposure")
    /\ LET result == simulate_portfolio_exposure(Store, last.args.company_id,
                                                 last.args.time_horizon_days,
                                                 last.args.num_scenarios)
       IN  ReturnDrawn(result,
              IF result.status \in {422, 404} THEN last.rng
              ELSE GeneratorAfter(Or(last.args.num_scenarios, 10000),
                                  last.args.time_horizon_days))

RunScenarioAnalysis ==
    /\ Calling("run_scenario_analysis")
    /\ \E tie_up \in BOOLEAN :
          Return(run_scenario_analysis(last.args.exposure_amount,
                                       last.args.current_rate,
                                       last.args.hedge_ratio,
                                       last.args.scenario_type, tie_up))

CalculatePnlImpact ==
    /\ Calling("calculate_pnl_impact")
    /\ \E tie_up \in BOOLEAN :
          Return(calculate_pnl_impact(last.args.exposure_amount,
                                      last.args.contract_rate,
                                      last.args.current_rate,
                                      last.args.hedge_ratio, tie_up))

RecommendRollover ==
    /\ Calling("recommend_rollover")
    /\ Return(recommend_rollover(last.args.maturity_date, last.args.now,
                                 last.args.current_exposure,
                                 last.args.market_outlook))

CalculateOptimalHedgeRatio ==
    \E tie_up \in BOOLEAN :
       /\ Calling("calculate_optimal_hedge_ratio")
       /\ Return(calculate_optimal_hedge_ratio(
                    last.args.exposure_amount, last.args.current_rate,
                    last.args.historical_volatility,
                    last.args.time_horizon_days, last.args.risk_tolerance,
                    tie_up))

CalculatePnlAndStatus ==
    \E tie_up \in BOOLEAN :
       /\ Calling("calculate_pnl_and_status")
       /\ Return(calculate_pnl_and_status(last.args.exposure,
                                          last.args.current_rate, tie_up))

ServiceNext ==
    \/ RunSimulation
    \/ RunSimulationAgain
    \/ RunPortfolioSimulation
    \/ SimulatePortfolioExposure
    \/ RunScenarioAnalysis
    \/ CalculatePnlImpact
    \/ RecommendRollover
    \/ CalculatePnlAndStatus
    \/ CalculateOptimalHedgeRatio

ServiceSpec == ServiceInit /\ [][ServiceNext]_vars

\* The arguments the specification calls valid for one simulation.
ValidArguments(kw) ==
    /\ kw.current_rate > 0 /\ kw.amount > 0
    /\ kw.time_horizon_days >= 1 /\ kw.time_horizon_days <= 365
    /\ kw.num_scenarios = 0 \/ (kw.num_scenarios >= 100 /\ kw.num_scenarios <= 100000)

\* C12: run_simulation ends with a ValueError for every call whose
\* current_rate or amount is not positive or whose time_horizon_days is
\* below 1 or above 365 (calls that name parameters of the signature only).
C12_InvalidArgumentsRejected ==
    (/\ HasReturned("run_simulation")
     /\ last.args.random_seed = 0
     /\ \/ last.args.current_rate <= 0
        \/ last.args.amount <= 0
        \/ last.args.time_horizon_days < 1
        \/ last.args.time_horizon_days > 365)
    => last.result.status = "ValueError"

\* C13: a call of run_simulation or of run_portfolio_simulation that passes
\* a random_seed with otherwise valid arguments completes.
C13_SeedAccepted ==
    /\ (/\ HasReturned("run_simulation")
        /\ last.args.random_seed # 0
        /\ ValidArguments(last.args))
       => last.result.status = "ok"
    /\ (/\ HasReturned("run_portfolio_simulation")
        /\ last.args.random_seed # 0
        /\ last.args.exposures # <<>>
        /\ last.args.num_scenarios >= 100)
       => last.result.status = "ok"

RECURSIVE SumOverExposures(_, _, _, _)
\* The sum over the exposures of a list of the P&L each has in scenario i.
SumOverExposures(exposure_list, time_horizon_days, num_scenarios, i) ==
    IF exposure_list = <<>> THEN 0
    ELSE LET exp == Head(exposure_list)
             vol == estimate_volatility_from_pair(exp.currency_pair)
         IN  exp.amount * FinalRates(exp.current_rate, time_horizon_days, vol,
                                     num_scenarios, 0)[i]
             - exp.amount * exp.current_rate * ExpScale
             + SumOverExposures(Tail(exposure_list), time_horizon_days,
                                num_scenarios, i)

\* C14: run_portfolio_simulation called with a non-empty exposure list and a
\* scenario count in [100, 100000] completes, and its portfolio P&L vector
\* has one element per scenario, element i being the sum over the exposures
\* of their P&L in scenario i.
C14_PortfolioVectorIsTheSum ==
    (/\ HasReturned("run_portfolio_simulation")
     /\ last.args.random_seed = 0
     /\ last.args.exposures # <<>>
     /\ last.args.num_scenarios >= 100 /\ last.args.num_scenarios <= 100000)
    => /\ last.result.status = "ok"
       /\ Len(last.result.sample_portfolio_pnl) = last.args.num_scenarios
       /\ \A i \in 1..last.args.num_scenarios :
             last.result.sample_portfolio_pnl[i] =
                SumOverExposures(last.args.exposures,
                                 last.args.time_horizon_days,
                                 last.args.num_scenarios, i)

\* C15: a simulation with valid arguments returns a terminal-rate sample and
\* a P&L sample of exactly num_scenarios elements each.
C15_SampleHasNumScenarios ==
    (/\ HasReturned("run_simulation")
     /\ last.args.random_seed = 0
     /\ ValidArguments(last.args))
    => /\ last.result.status = "ok"
       /\ Len(last.result.outcomes.simulated_rates) =
             last.result.simulation_params.num_scenarios
       /\ Len(last.result.outcomes.simulated_pnl) =
             last.result.simulation_params.num_scenarios

\* C16 as stated: run_portfolio_simulation called with an empty exposure list
\* ends with an error and returns no portfolio metrics.
C16_EmptyListFails ==
    (/\ HasReturned("run_portfolio_simulation")
     /\ last.args.random_seed = 0
     /\ last.args.exposures = <<>>)
    => last.result.status # "ok"

\* C16: the portfolio route answers a request for a company without
\* exposures with 404 and no metrics (the service is not called), and a
\* request it answers with metrics aggregated at least one exposure.
C16_RouteRefusesEmptyPortfolio ==
    HasReturned("simulate_portfolio_exposure") =>
       /\ (/\ PortfolioRequestValid(last.args.time_horizon_days,
                                    last.args.num_scenarios)
           /\ CompanyExposures(Store, last.args.company_id) = {})
          => last.result = [status |-> 404]
       /\ last.result.status = 200 =>
             last.result.portfolio_simulation.portfolio_metrics.total_exposures >= 1

\* C16 witness: a valid request for the portfolio of a company without
\* exposures has been answered with 404.
C16_Witness ==
    /\ HasReturned("simulate_portfolio_exposure")
    /\ last.args.num_scenarios = 100 /\ last.args.time_horizon_days = 1
    /\ CompanyExposures(Store, last.args.company_id) = {}
    /\ last.result.status = 404

Abs(x) == IF x < 0 THEN -x ELSE x

\* The risk metrics a completed call returned, of one exposure or of the
\* portfolio.
ReturnedMetrics ==
    IF last.op = "run_simulation" THEN last.result.risk_metrics
    ELSE last.result.portfolio_metrics.risk_metrics

MetricsReturned ==
    /\ last.phase = "returned"
    /\ last.op \in {"run_simulation", "run_portfolio_simulation"}
    /\ last.result.status = "ok"

C18_ZeroVolatilityIsDegenerate ==
    (/\ HasReturned("run_simulation")
     /\ last.args.random_seed = 0
     /\ ValidArguments(last.args)
     /\ last.args.volatility = 0 /\ last.args.drift = 0)
    => /\ last.result.risk_metrics.losses = 0
       /\ last.result.risk_metrics.var_95 = 0
       /\ last.result.risk_metrics.var_99 = 0

\* The entries of a completed scenario analysis.
ScenarioRows == {last.result.scenarios[k] : k \in DOMAIN last.result.scenarios}

\* The rate changes of the scenario set a call chooses.
ChosenScenarios ==
    IF last.args.scenario_type \in DOMAIN SCENARIOS
    THEN SCENARIOS[last.args.scenario_type] ELSE SCENARIOS["moderate"]

\* The concrete case: amount 1,000,000, rate 1.0850, ratio 0.50, moderate.
ConcreteCase ==
    /\ last.args.exposure_amount = 1000 /\ last.args.current_rate = 1085
    /\ last.args.hedge_ratio = 50 /\ last.args.scenario_type = "moderate"

\* C19 as stated: every entry of a scenario analysis has unhedged_pnl =
\* amount x current_rate x shift, hedged_pnl = (1 - hedge_ratio) x
\* unhedged_pnl and hedge_benefit = unhedged_pnl - hedged_pnl.
C19_ExactIdentities ==
    HasReturned("run_scenario_analysis") =>
       \A row \in ScenarioRows :
          /\ row.unhedged_pnl = last.args.exposure_amount * last.args.current_rate
                                   * row.rate_change_pct
          /\ 100 * row.hedged_pnl = (100 - last.args.hedge_ratio) * row.unhedged_pnl
          /\ row.hedge_benefit = row.unhedged_pnl - row.hedged_pnl

\* C19: a scenario analysis has one entry for every rate shift s of the
\* chosen set, and in each entry unhedged_pnl, hedged_pnl and hedge_benefit
\* are amount x current_rate x s, (1 - hedge_ratio) times that and
\* hedge_ratio times that, each rounded to the nearest cent.  Hence
\* hedge_ratio = 1 gives hedged_pnl = 0 and hedge_ratio = 0 gives hedged_pnl
\* = unhedged_pnl for every shift, and amount 1,000,000, rate 1.0850, ratio
\* 0.50, shift +5% gives new_rate 1.13925 and 54,250 / 27,125 / 27,125.
C19_IdentitiesToTheCent ==
    HasReturned("run_scenario_analysis") =>
       /\ Len(last.result.scenarios) = Len(ChosenScenarios)
       /\ \A k \in DOMAIN ChosenScenarios :
             LET row   == last.result.scenarios[k]
                 exact == last.args.exposure_amount * last.args.current_rate
                             * ChosenScenarios[k]
             IN  /\ row.rate_change_pct = ChosenScenarios[k]
                 /\ row.unhedged_pnl = exact
                 /\ Abs(100 * row.hedged_pnl
                        - (100 - last.args.hedge_ratio) * exact) <= 50
                 /\ Abs(100 * row.hedge_benefit
                        - last.args.hedge_ratio * exact) <= 50
                 /\ last.args.hedge_ratio = 100 => row.hedged_pnl = 0
                 /\ last.args.hedge_ratio = 0 => row.hedged_pnl = row.unhedged_pnl
                 /\ (ConcreteCase /\ ChosenScenarios[k] = 5) =>
                       /\ row.new_rate = 113925
                       /\ row.unhedged_pnl = 5425000
                       /\ row.hedged_pnl = 2712500
                       /\ row.hedge_benefit = 2712500

\* C19 witness: an analysis has returned an entry whose hedged_pnl is not a
\* whole number of cents before rounding (1,000 at 1.085, ratio 0.65, +5%:
\* 18.9875 returned as 18.99).
C19_Witness ==
    /\ HasReturned("run_scenario_analysis")
    /\ last.args.exposure_amount = 1 /\ last.args.current_rate = 1085
    /\ last.args.hedge_ratio = 65
    /\ \E row \in ScenarioRows :
          /\ row.rate_change_pct = 5
          /\ row.unhedged_pnl = 5425 /\ row.hedged_pnl = 1899
          /\ row.hedge_benefit = 3526

\* The label of the other side with the same severity.
Mirror(label) ==
    CASE label = "Severe Adverse"     -> "Severe Favorable"
      [] label = "Moderate Adverse"   -> "Moderate Favorable"
      [] label = "Mild Adverse"       -> "Mild Favorable"
      [] label = "No Change"          -> "No Change"
      [] label = "Mild Favorable"     -> "Mild Adverse"
      [] label = "Moderate Favorable" -> "Moderate Adverse"
      [] label = "Severe Favorable"   -> "Severe Adverse"

\* C20: in a scenario analysis a shift of -10% or worse is Severe Adverse, a
\* shift from -5% down to above -10% is Moderate Adverse, a shift below 0 is
\* Mild Adverse, 0 is No Change, and a positive shift +m has the Favorable
\* label of the severity of the Adverse label of -m.
C20_LabelsSymmetric ==
    HasReturned("run_scenario_analysis") =>
       \A row \in ScenarioRows :
          LET m == row.rate_change_pct IN
          /\ m <= -10 => row.scenario = "Severe Adverse"
          /\ (-10 < m /\ m <= -5) => row.scenario = "Moderate Adverse"
          /\ (-5 < m /\ m < 0) => row.scenario = "Mild Adverse"
          /\ m = 0 => row.scenario = "No Change"
          /\ m > 0 => row.scenario = Mirror(classify_scenario(-m))

\* The unrounded P&Ls of the call in last, in hundredths of a cent.
ExactHedged ==
    last.args.exposure_amount * last.args.hedge_ratio
       * (last.args.current_rate - last.args.contract_rate)

ExactUnhedged ==
    last.args.exposure_amount * 100
       * (last.args.current_rate - last.args.contract_rate)

OppositeSign(x, y) == (x < 0 /\ y > 0) \/ (x > 0 /\ y < 0)

SameSign(x, y) == (x < 0 /\ y < 0) \/ (x > 0 /\ y > 0)

Graded == {"Highly Effective", "Effective", "Partially Effective"}

PnlImpactReturned ==
    HasReturned("calculate_pnl_impact") /\ last.result.status = "ok"

\* The concrete case: 1,000,000 / 1.0800 / 1.0950 / 0.75.
PnlConcreteCase ==
    /\ last.args.exposure_amount = 100000 /\ last.args.contract_rate = 1080
    /\ last.args.current_rate = 1095 /\ last.args.hedge_ratio = 75

\* C21 as stated: pnl_impact returns hedged_pnl = amount x hedge_ratio x
\* (current_rate - contract_rate), unhedged_pnl = amount x (current_rate -
\* contract_rate) and opportunity_impact = hedged_pnl - unhedged_pnl, grades
\* the effectiveness only when the two P&Ls have opposite sign and answers
\* Ineffective whenever they have the same sign.
C21_PnlImpactExact ==
    PnlImpactReturned =>
       /\ 100 * last.result.hedged_pnl = ExactHedged
       /\ 100 * last.result.unhedged_pnl = ExactUnhedged
       /\ last.result.opportunity_impact =
             last.result.hedged_pnl - last.result.unhedged_pnl
       /\ last.result.hedge_effectiveness \in Graded =>
             OppositeSign(last.result.hedged_pnl, last.result.unhedged_pnl)
       /\ SameSign(last.result.hedged_pnl, last.result.unhedged_pnl) =>
             last.result.hedge_effectiveness = "Ineffective"

\* C21: pnl_impact returns hedged_pnl, unhedged_pnl and opportunity_impact
\* as amount x hedge_ratio x (current_rate - contract_rate), amount x
\* (current_rate - contract_rate) and their difference, each rounded to the
\* nearest cent.  On the unrounded P&Ls the effectiveness is Neutral when
\* unhedged_pnl is zero, Highly Effective / Effective / Partially Effective
\* (|hedged/unhedged| >= 90%, >= 70%, below) when the two have opposite
\* sign, and Ineffective otherwise; 1,000,000 / 1.0800 / 1.0950 / 0.75 gives
\* 11,250, 15,000, -3,750 and Ineffective.
C21_PnlImpactToTheCent ==
    PnlImpactReturned =>
       /\ Abs(100 * last.result.hedged_pnl - ExactHedged) <= 50
       /\ Abs(100 * last.result.unhedged_pnl - ExactUnhedged) <= 50
       /\ Abs(100 * last.result.opportunity_impact
              - (ExactHedged - ExactUnhedged)) <= 50
       /\ last.result.hedge_effectiveness = "Neutral" <=> ExactUnhedged = 0
       /\ last.result.hedge_effectiveness \in Graded <=>
             OppositeSign(ExactHedged, ExactUnhedged)
       /\ OppositeSign(ExactHedged, ExactUnhedged) =>
             last.result.hedge_effectiveness =
                IF Abs(ExactHedged) * 10 >= Abs(ExactUnhedged) * 9
                THEN "Highly Effective"
                ELSE IF Abs(ExactHedged) * 10 >= Abs(ExactUnhedged) * 7
                THEN "Effective" ELSE "Partially Effective"
       /\ SameSign(ExactHedged, ExactUnhedged) =>
             last.result.hedge_effectiveness = "Ineffective"
       /\ PnlConcreteCase =>
             /\ last.result.hedged_amount = 75000000
             /\ last.result.hedged_pnl = 1125000
             /\ last.result.unhedged_pnl = 1500000
             /\ last.result.opportunity_impact = -375000
             /\ last.result.hedge_effectiveness = "Ineffective"

\* C21 witness: pnl_impact has returned a hedged_pnl that is not a whole
\* number of cents before rounding (1,050 / 1.080 / 1.095 / 0.75: 11.8125
\* returned as 11.81), graded Ineffective.
C21_Witness ==
    /\ PnlImpactReturned
    /\ last.args.exposure_amount = 105 /\ last.args.hedge_ratio = 75
    /\ last.args.contract_rate = 1080 /\ last.args.current_rate = 1095
    /\ last.result.hedged_pnl = 1181 /\ last.result.unhedged_pnl = 1575
    /\ last.result.hedge_effectiveness = "Ineffective"

\* The inputs PnLCalculationRequest admits.
ValidPnlArguments ==
    /\ last.args.exposure_amount > 0
    /\ last.args.contract_rate > 0 /\ last.args.current_rate > 0
    /\ last.args.hedge_ratio >= 0 /\ last.args.hedge_ratio <= 100

\* C26: for every pnl_impact call with amount > 0, both rates > 0 and
\* hedge_ratio in [0,1] the effectiveness is Neutral (exactly when
\* current_rate = contract_rate) or Ineffective; Highly Effective, Effective
\* and Partially Effective are never returned.
C26_GradesUnreachable ==
    (HasReturned("calculate_pnl_impact") /\ ValidPnlArguments) =>
       /\ last.result.status = "ok"
       /\ last.result.hedge_effectiveness \in {"Neutral", "Ineffective"}
       /\ last.result.hedge_effectiveness = "Neutral" <=>
             last.args.current_rate = last.args.contract_rate

\* C26 witness: a valid call with a rate above the contract rate and a hedge
\* of 75% has been graded Ineffective.
C26_Witness ==
    /\ HasReturned("calculate_pnl_impact") /\ ValidPnlArguments
    /\ last.args.hedge_ratio = 75
    /\ last.args.current_rate > last.args.contract_rate
    /\ last.result.hedge_effectiveness = "Ineffective"

\* C22: recommend_rollover maps the days to maturity d (the whole days from
\* the call to the maturity date) to a recommendation and an urgency: d > 30
\* gives Monitor and Low; 8 <= d <= 30 gives Roll Over Early (bearish), Let
\* Mature (bullish) or Prepare to Roll (neutral) and Medium; d <= 7 gives
\* Take Action Now and High, with the action to roll over when
\* current_exposure is positive and to let the hedge mature when it is zero.
C22_RolloverByDays ==
    HasReturned("recommend_rollover") =>
       LET d == last.result.days_to_maturity IN
       /\ d * 24 <= last.args.maturity_date - last.args.now
       /\ last.args.maturity_date - last.args.now < (d + 1) * 24
       /\ d > 30 => /\ last.result.recommendation = "Monitor"
                    /\ last.result.urgency = "Low"
       /\ (8 <= d /\ d <= 30) =>
             /\ last.result.urgency = "Medium"
             /\ last.args.market_outlook = "bearish" =>
                   last.result.recommendation = "Roll Over Early"
             /\ last.args.market_outlook = "bullish" =>
                   last.result.recommendation = "Let Mature"
             /\ last.args.market_outlook = "neutral" =>
                   last.result.recommendation = "Prepare to Roll"
       /\ d <= 7 =>
             /\ last.result.recommendation = "Take Action Now"
             /\ last.result.urgency = "High"
             /\ last.args.current_exposure > 0 =>
                   last.result.action = "Roll over to maintain hedge protection"
             /\ last.args.current_exposure = 0 =>
                   last.result.action = "Allow to mature if exposure has reduced"

\* C22 witness: a hedge that matures in seven days and 23 hours, with its
\* exposure still open, has been answered Take Action Now, urgency High.
C22_Witness ==
    /\ HasReturned("recommend_rollover")
    /\ last.args.maturity_date - last.args.now = 191
    /\ last.args.current_exposure > 0
    /\ last.result.days_to_maturity = 7
    /\ last.result.recommendation = "Take Action Now"
    /\ last.result.urgency = "High"

\* The fields of HedgeRecommendationRequest: a positive amount and rate, a
\* volatility above 0 and at most 1, a horizon of 1 to 365 days, a risk
\* tolerance of low, moderate or high.
ValidHedgeArguments(kw) ==
    /\ kw.exposure_amount > 0
    /\ kw.current_rate > 0
    /\ kw.historical_volatility > 0 /\ kw.historical_volatility <= 100
    /\ kw.time_horizon_days >= 1 /\ kw.time_horizon_days <= 365
    /\ kw.risk_tolerance \in {"low", "moderate", "high"}

\* C23: for every valid input calculate_optimal_hedge_ratio answers, and the
\* recommended ratio is 1.0 for low, 0.5 for high, and for moderate the
\* smaller of 0.75 and the 95% value at risk in rate space (current rate x
\* adjusted volatility x 1.645) to two decimals; it lies in [0, 1] and for
\* moderate it never exceeds 0.75.
C23_RatioByTolerance ==
    (HasReturned("calculate_optimal_hedge_ratio") /\ ValidHedgeArguments(last.args)) =>
       /\ last.result.status = "ok"
       /\ last.result.recommended_ratio >= 0
       /\ last.result.recommended_ratio <= 100
       /\ last.args.risk_tolerance = "low" =>
             last.result.recommended_ratio = 100
       /\ last.args.risk_tolerance = "high" =>
             last.result.recommended_ratio = 50
       /\ last.args.risk_tolerance = "moderate" =>
             /\ last.result.recommended_ratio <= 75
             /\ last.result.var_95 >= 7500 =>
                   last.result.recommended_ratio = 75
             /\ last.result.var_95 < 7500 =>
                   /\ last.result.recommended_ratio * 100 - last.result.var_95 <= 50
                   /\ last.result.var_95 - last.result.recommended_ratio * 100 <= 50
       /\ last.args.current_rate <= 1085 =>
             LET exact == ((last.args.current_rate * last.result.adjusted_volatility) \div 1000) * 1645
             IN  /\ last.result.var_95 * 1000 <= exact
                 /\ exact < last.result.var_95 * 1000 + 17450

\* C23 witness: a moderate recommendation for a valid input whose value at
\* risk is above 0.75 has been capped at 0.75.
C23_Witness ==
    /\ HasReturned("calculate_optimal_hedge_ratio")
    /\ ValidHedgeArguments(last.args)
    /\ last.args.risk_tolerance = "moderate"
    /\ last.result.var_95 > 7500
    /\ last.result.recommended_ratio = 75

\* The explicit no-data result: every P&L field empty, status NO_DATA.
NoData ==
    [current_pnl |-> None, hedged_amount |-> None, unhedged_amount |-> None,
     pnl_status |-> "NO_DATA"]

\* C24: a P&L computation whose budget rate (calculate_pnl_and_status) or
\* contract rate (calculate_pnl_impact) is absent or zero raises no
\* arithmetic fault and returns the no-data result.
C24_NoRateGivesNoData ==
    /\ (HasReturned("calculate_pnl_and_status")
        /\ ~Truthy(last.args.exposure.budget_rate)) => last.result = NoData
    /\ (HasReturned("calculate_pnl_impact") /\ last.args.contract_rate = 0) =>
          /\ last.result.status # "ZeroDivisionError"
          /\ last.result = NoData

\* C30: in calculate_pnl_and_status an exposure whose max_loss_limit is zero
\* or negative is never given the status WARNING: a P&L below the limit is a
\* BREACH, and a P&L at or above the limit is TARGET_MET or OK.
C30_NoWarningForLossLimit ==
    (/\ HasReturned("calculate_pnl_and_status")
     /\ last.args.exposure.max_loss_limit # None
     /\ last.args.exposure.max_loss_limit[1] <= 0
     /\ last.result.pnl_status # "NO_DATA") =>
       LET pnl == (last.args.current_rate[1] - last.args.exposure.budget_rate[1])
                     * last.args.exposure.amount
           limit == last.args.exposure.max_loss_limit[1] * 1000
       IN  /\ last.result.pnl_status \in {"BREACH", "TARGET_MET", "OK"}
           /\ last.result.pnl_status = "BREACH" <=> pnl < limit

\* C30 witness: an exposure with a loss limit of -500 and a P&L of -475,
\* between the limit and nine tenths of it, has been given the status OK.
C30_Witness ==
    /\ HasReturned("calculate_pnl_and_status")
    /\ last.args.exposure.max_loss_limit = Some(-500)
    /\ last.args.exposure.budget_rate = Some(1000)
    /\ last.args.exposure.amount = 1000
    /\ last.args.current_rate = Some(525)
    /\ last.result.pnl_status = "OK"


C27_PreviewAgreesWithCascade ==
    \A pid \in ReqPolicyIds, cid \in Companies :
        LET p == preview_cascade(Store, pid, cid).response
            c == cascade_policy(Store, pid, cid, 0)
        IN  /\ p.status \in {200, 404}
            /\ c.response.status = p.status
            /\ c.response.updated = p.updated
            /\ c.response.skipped = p.skipped
            /\ p.status = 200 =>
                  /\ c.store.audit[Len(c.store.audit)].exposures_updated = p.updated
                  /\ c.store.audit[Len(c.store.audit)].exposures_skipped = p.skipped

\* C27 witness: a preview has just reported one exposure to update and one
\* to skip, and the cascade of the same policy and company on this state
\* updates one and skips one.
C27_Witness ==
    /\ last.op = "preview" /\ last.status = 200
    /\ last.updated = 1 /\ last.skipped = 1
    /\ \E pid \in ReqPolicyIds, cid \in Companies :
          /\ preview_cascade(Store, pid, cid).response = last
          /\ cascade_policy(Store, pid, cid, 0).response =
                Response("cascade", 200, 1, 1)

\* The part of a store that belongs to the companies other than cid.
OfOtherCompanies(s, cid) ==
    [exposures |-> [e \in {e \in DOMAIN s.exposures :
                              s.exposures[e].company_id # cid} |-> s.exposures[e]],
     policies |-> [id \in {id \in DOMAIN s.policies :
                              s.policies[id].company_id # cid} |-> s.policies[id]],
     audit |-> SelectSeq(s.audit, LAMBDA a : a.company_id # cid)]

\* C28: a cascade for company c changes nothing that belongs to another
\* company: whether it succeeds, answers 404 or fails on the way, every
\* exposure (ratio and override flag), every policy (active flag) and every
\* audit entry of every other company is after it what it was before.
C28_CascadeKeepsOtherCompanies ==
    \A pid \in ReqPolicyIds, cid \in Companies, crash \in 0..3 :
        OfOtherCompanies(cascade_policy(Store, pid, cid, crash).store, cid)
        = OfOtherCompanies(Store, cid)

\* C28 witness: a cascade has succeeded for company 1 and has written a
\* ratio, while company 2 has an exposure and an active policy of its own.
C28_Witness ==
    /\ CascadeJustSucceeded
    /\ LastEntry.company_id = 1
    /\ last.updated >= 1
    /\ \E id \in DOMAIN policies :
          policies[id].company_id = 2 /\ policies[id].is_active
    /\ \E e \in DOMAIN exposures : exposures[e].company_id = 2

\* C29: clear_override changes only the override flag of the named exposure:
\* the policies, the audit log, the other exposures and the exposure's own
\* hedge ratio are what they were; a cascade of its company made after it
\* sets the exposure to the tier ratio of the cascaded policy and counts it
\* among the updated.
C29_ClearKeepsRatioUntilCascade ==
    \A eid \in ReqExposureIds :
        LET r == clear_hedge_override(Store, eid) IN
        r.response.status = 200 =>
           /\ r.store.policies = policies
           /\ r.store.audit = audit
           /\ r.store.exposures =
                 [exposures EXCEPT ![eid].hedge_override = FALSE]
           /\ \A pid \in ReqPolicyIds :
                 LET c == cascade_policy(r.store, pid, exposures[eid].company_id, 0)
                 IN  c.response.status = 200 =>
                        /\ c.store.exposures[eid].hedge_ratio_policy =
                              NewRatio(policies[pid], exposures[eid])
                        /\ ~c.store.exposures[eid].hedge_override
                        /\ c.response.updated =
                              Cardinality({e \in CompanyExposures(Store, exposures[eid].company_id) :
                                              e = eid \/ ~exposures[e].hedge_override})

\* C29 witness: clear_override has just succeeded on an exposure pinned at
\* 0, which is still at 0 with its flag down, while its company's active
\* policy has another tier ratio for it.
C29_Witness ==
    /\ last.op = "clear_override" /\ last.status = 200
    /\ \E e \in DOMAIN exposures :
          /\ ~exposures[e].hedge_override
          /\ exposures[e].hedge_ratio_policy = 0
          /\ \E id \in CompanyPolicies(Store, exposures[e].company_id) :
                /\ policies[id].is_active
                /\ NewRatio(policies[id], exposures[e]) # 0
====
